---- MODULE Spec2Model ----
(***************************************************************************)
(* Model of compdb's build-log scanner (src/parser.py, src/compdb.py).     *)
(*                                                                         *)
(* Text is modelled as TLA+ strings, character by character: the regular   *)
(* expressions, the tokenizer and unescape are operators computed the way  *)
(* the Python code computes them.  A transcript is a finite sequence of    *)
(* physical lines drawn from Catalogue.                                    *)
(***************************************************************************)
EXTENDS Integers, Sequences, FiniteSets, TLC

VARIABLES
    pc,           \* "start" | "loop" | "done" | "error" | "raised" (a scan),
                  \* "split" | "merge" | "split_done" (split_cmd_line)
    transcript,   \* the physical lines of the build log (the file's content)
    build_log,    \* the stream: physical lines not yet read
    proj_dir,
    extra_flags,
    result,       \* ParsingResult: [skipped, count, compdb]
    compiler,
    dir_stack,
    saved_files,
    working_dir,
    lineno,
    run,          \* number of the scan in progress (the caller scans again)
    first,        \* the ParsingResult the first scan returned
    cmd_line,     \* split_cmd_line: its argument line
    split_words,  \* split_cmd_line: the words of pass 1 not yet merged
    res           \* split_cmd_line: the list pass 2 builds and returns

\* the locals of a call of split_cmd_line on its own; within a scan the call
\* is part of one iteration of the loop and they stay unset
split_locals == <<cmd_line, split_words, res>>

vars == <<pc, transcript, build_log, proj_dir, extra_flags, result,
          compiler, dir_stack, saved_files, working_dir, lineno, run, first,
          cmd_line, split_words, res>>

(***************************************************************************)
(* Bounds.                                                                 *)
(***************************************************************************)
MaxLines == 3     \* physical lines in a transcript
MaxRuns == 2      \* scans of the same transcript in one process

(***************************************************************************)
(* Characters and strings.                                                 *)
(***************************************************************************)
LF == "\n"
BACKSLASH == "\\"
DQUOTE == "\""
SQUOTE == "'"
BACKTICK == SubSeq("`'", 1, 1)

\* str.isspace() for the characters a transcript holds
Whitespace == {" ", "\t", "\n", "\r", "\f"}

Digits == {"0", "1", "2", "3", "4", "5", "6", "7", "8", "9"}
Lower == {"a", "b", "c", "d", "e", "f", "g", "h", "i", "j", "k", "l", "m",
          "n", "o", "p", "q", "r", "s", "t", "u", "v", "w", "x", "y", "z"}
Upper == {"A", "B", "C", "D", "E", "F", "G", "H", "I", "J", "K", "L", "M",
          "N", "O", "P", "Q", "R", "S", "T", "U", "V", "W", "X", "Y", "Z"}

\* s[i], and "" outside of s
CharAt(s, i) == IF 1 <= i /\ i <= Len(s) THEN SubSeq(s, i, i) ELSE ""

StartsWith(s, p) == Len(s) >= Len(p) /\ SubSeq(s, 1, Len(p)) = p

EndsWith(s, p) == Len(s) >= Len(p) /\ SubSeq(s, Len(s) - Len(p) + 1, Len(s)) = p

\* the literal lit occurs in s starting at position i
OccursAt(s, lit, i) ==
    /\ i >= 1
    /\ i + Len(lit) - 1 <= Len(s)
    /\ SubSeq(s, i, i + Len(lit) - 1) = lit

\* every character of s[i..j] is in the class cls
AllIn(s, i, j, cls) == \A k \in i..j : CharAt(s, k) \in cls

\* the regex '.' matches every character but a newline
NoLF(s, i, j) == \A k \in i..j : CharAt(s, k) # LF

\* where '$' matches in s (no MULTILINE): at the end, or before a final newline
AtDollar(s, i) == i = Len(s) + 1 \/ (i = Len(s) /\ CharAt(s, i) = LF)

\* first position from i on whose character is in cls, Len(s) + 1 if none
FirstIn(s, i, cls) ==
    CHOOSE k \in i..(Len(s) + 1) :
        /\ k = Len(s) + 1 \/ CharAt(s, k) \in cls
        /\ \A j \in i..(k - 1) : CharAt(s, j) \notin cls

\* first position from i on whose character is not in cls, Len(s) + 1 if none
FirstNotIn(s, i, cls) ==
    CHOOSE k \in i..(Len(s) + 1) :
        /\ k = Len(s) + 1 \/ CharAt(s, k) \notin cls
        /\ \A j \in i..(k - 1) : CharAt(s, j) \in cls

\* number of whitespace characters of s from i on, up to the first other one
LeadingWs(s, i) == FirstNotIn(s, i, Whitespace) - i

\* position of the last character of s that is not whitespace (0 if none)
RECURSIVE LastNonWs(_, _)
LastNonWs(s, i) ==
    IF i >= 1 /\ CharAt(s, i) \in Whitespace THEN LastNonWs(s, i - 1)
    ELSE i

SetMax(S) == CHOOSE x \in S : \A y \in S : y <= x

\* number of occurrences of the character c in s
CountChar(s, c) == Cardinality({ k \in 1..Len(s) : CharAt(s, k) = c })

(***************************************************************************)
(* The regular expressions of parser.py, each as the predicate             *)
(* "pattern.match(s) is not None" (a match anchored at the start of s).    *)
(***************************************************************************)

\* ".*" followed by the literal lit: lit occurs somewhere on the first line of s
DotStarThen(s, lit) ==
    \E i \in 1..Len(s) : OccursAt(s, lit, i) /\ NoLF(s, 1, i - 1)

\* ".*$" matches s from position i on
DotStarDollar(s, i) ==
    \E e \in i..(Len(s) + 1) : NoLF(s, i, e - 1) /\ AtDollar(s, e)

\* (.*-?g?cc )|(.*-?clang )
cc_compile_regex(s) == DotStarThen(s, "cc ") \/ DotStarThen(s, "clang ")

\* (.*-?[gc]\+\+ )|(.*-?clang\+\+ )
cpp_compile_regex(s) ==
    \/ DotStarThen(s, "g++ ")
    \/ DotStarThen(s, "c++ ")
    \/ DotStarThen(s, "clang++ ")

\* (^.+\.c$)|(^.+\.cc$)|(^.+\.cpp$)|(^.+\.cxx$)
FileSuffixes == {".c", ".cc", ".cpp", ".cxx"}

file_regex(s) ==
    \E suf \in FileSuffixes : \E e \in {Len(s) + 1, Len(s)} :
        /\ AtDollar(s, e)
        /\ OccursAt(s, suf, e - Len(suf))
        /\ e - Len(suf) >= 2
        /\ NoLF(s, 1, e - Len(suf) - 1)

EnterLit == ": Entering directory "
LeaveLit == ": Leaving directory "
QuoteChars == {BACKTICK, SQUOTE, DQUOTE}

\* positions p where "make.*: Entering directory [`'"]" can end its ".*" so
\* that the rest of the pattern, (?P<dir>.*)[`'"]\s*$, still matches
EnterPositions(s) ==
    LET w == LeadingWs(s, 1)
        q == LastNonWs(s, Len(s))
    IN  { p \in (w + 5)..Len(s) :
            /\ OccursAt(s, "make", w + 1)
            /\ OccursAt(s, EnterLit, p)
            /\ NoLF(s, w + 5, p - 1)
            /\ CharAt(s, p + Len(EnterLit)) \in QuoteChars
            /\ q > p + Len(EnterLit)
            /\ CharAt(s, q) \in QuoteChars
            /\ NoLF(s, p + Len(EnterLit) + 1, q - 1) }

\* ^\s*make.*: Entering directory [`'"](?P<dir>.*)[`'"]\s*$
make_enter_dir(s) == EnterPositions(s) # {}

\* enter_dir.group('dir'): both ".*" are greedy
EnterDirGroup(s) ==
    LET p == SetMax(EnterPositions(s))
    IN  SubSeq(s, p + Len(EnterLit) + 1, LastNonWs(s, Len(s)) - 1)

\* ^\s*make.*: Leaving directory .*$
make_leave_dir(s) ==
    LET w == LeadingWs(s, 1)
    IN  /\ OccursAt(s, "make", w + 1)
        /\ \E p \in (w + 5)..Len(s) :
              /\ OccursAt(s, LeaveLit, p)
              /\ NoLF(s, w + 5, p - 1)
              /\ DotStarDollar(s, p + Len(LeaveLit))

\* flag_patterns, joined as ^p1$|^p2$|...
FlagClassM == Digits \cup {"+"}
FlagClassStd == Lower \cup Digits \cup {"+"}
FlagClassName == Lower \cup Upper \cup Digits \cup {"_"}

\* s[i..] is cls+ up to where '$' matches
ClassPlusDollar(s, i, cls) ==
    \E e \in (i + 1)..(Len(s) + 1) : AllIn(s, i, e - 1, cls) /\ AtDollar(s, e)

flags_whitelist(s) ==
    \/ s = "-c" \/ s = "-c\n"
    \/ StartsWith(s, "-m") /\ ClassPlusDollar(s, 3, FlagClassM)
    \/ StartsWith(s, "-W") /\
          \E e \in 3..(Len(s) + 1) :
              (\A k \in 3..(e - 1) : CharAt(s, k) # ",") /\ AtDollar(s, e)
    \/ Len(s) >= 2 /\ CharAt(s, 1) = "-" /\ CharAt(s, 2) \in {"i", "I", "D", "F"}
          /\ DotStarDollar(s, 3)
    \/ StartsWith(s, "-std=") /\ ClassPlusDollar(s, 6, FlagClassStd)
    \/ \E lit \in {"-stdlib", "-stdinc", "-nostdlib", "-nostdinc"} :
          StartsWith(s, lit) /\ AtDollar(s, Len(lit) + 1)
    \/ StartsWith(s, "-D") /\
          \E e \in 4..(Len(s) + 1) :
              /\ AllIn(s, 3, e - 1, FlagClassName)
              /\ DotStarDollar(s, IF CharAt(s, e) = "=" THEN e + 1 ELSE e)
    \/ StartsWith(s, "--sysroot") /\ DotStarDollar(s, 10)

pair_flags == {"-D", "-o", "-I", "-isystem", "-iquote", "-include",
               "-imacros", "-isysroot", "--sysroot"}

\* (^.*out/.+_intermediates.*$)|(.+/proguard.flags$)
invalid_include_regex(s) ==
    \/ \E p \in 1..Len(s) : \E q \in (p + 5)..Len(s) :
          /\ OccursAt(s, "out/", p)
          /\ OccursAt(s, "_intermediates", q)
          /\ NoLF(s, 1, q - 1)
          /\ DotStarDollar(s, q + 14)
    \/ \E p \in 2..Len(s) :
          /\ OccursAt(s, "/proguard", p)
          /\ NoLF(s, 1, p + 9)
          /\ p + 9 <= Len(s)
          /\ OccursAt(s, "flags", p + 10)
          /\ AtDollar(s, p + 15)

(***************************************************************************)
(* split_cmd_line, unbalanced_quotes, unescape.                            *)
(***************************************************************************)

\* line.strip().split(): the maximal runs of non-whitespace characters of
\* s[i..]
RECURSIVE SplitWords(_, _)
SplitWords(s, i) ==
    LET b == FirstNotIn(s, i, Whitespace)
        e == FirstIn(s, b, Whitespace)
    IN  IF b > Len(s) THEN <<>>
        ELSE <<SubSeq(s, b, e - 1)>> \o SplitWords(s, e)

unbalanced_quotes(s) ==
    CountChar(s, SQUOTE) % 2 = 1 \/ CountChar(s, DQUOTE) % 2 = 1

\* MergeWord merging whenever the last token holds any quote at all
MergeWord_anyQuote(tokens, w) ==
    IF Len(tokens) > 0
       /\ CountChar(tokens[Len(tokens)], SQUOTE) + CountChar(tokens[Len(tokens)], DQUOTE) > 0
    THEN [tokens EXCEPT ![Len(tokens)] = @ \o " " \o w]
    ELSE Append(tokens, w)

\* lines 182-185: one iteration of pass 2, tokens being res so far
MergeWord(tokens, w) ==
    IF Len(tokens) > 0 /\ unbalanced_quotes(tokens[Len(tokens)])
    THEN [tokens EXCEPT ![Len(tokens)] = @ \o " " \o w]
    ELSE Append(tokens, w)

\* pass 2 of split_cmd_line: tokens is the list built so far
RECURSIVE MergeWords(_, _)
MergeWords(words, tokens) ==
    IF Len(words) = 0 THEN tokens
    ELSE MergeWords(Tail(words), MergeWord(tokens, Head(words)))

split_cmd_line(line) == MergeWords(SplitWords(line, 1), <<>>)

\* The printable ASCII characters, codes 32..126, in order.
Ascii ==
    " !\"#$%&'()*+,-./0123456789:;<=>?@ABCDEFGHIJKLMNOPQRSTUVWXYZ[\\]^_"
    \o BACKTICK \o "abcdefghijklmnopqrstuvwxyz{|}~"

HexDigits == "0123456789abcdef"
HexDigitsUpper == "0123456789ABCDEF"

IsHex(c) == \E k \in 1..16 : CharAt(HexDigits, k) = c \/ CharAt(HexDigitsUpper, k) = c

HexVal(c) ==
    (CHOOSE k \in 1..16 : CharAt(HexDigits, k) = c \/ CharAt(HexDigitsUpper, k) = c) - 1

\* chr(code), for the characters a transcript holds
Chr(code) ==
    CASE code = 9 -> "\t"
      [] code = 10 -> "\n"
      [] code = 12 -> "\f"
      [] code = 13 -> "\r"
      [] OTHER -> CharAt(Ascii, code - 31)

\* The one-character escapes of unicode_escape that denote a character a
\* transcript holds (\a, \b, \v, octal, \u, \U and \N are outside the alphabet).
SimpleEscapes == {BACKSLASH, SQUOTE, DQUOTE, "n", "t", "r", "f"}

SimpleEscape(c) ==
    CASE c = "n" -> "\n"
      [] c = "t" -> "\t"
      [] c = "r" -> "\r"
      [] c = "f" -> "\f"
      [] OTHER -> c

\* s.encode().decode('unicode_escape') from position i on, out being the text
\* decoded so far.  raised: the codec raises UnicodeDecodeError (a backslash at
\* the end of the string, a truncated \xXX escape).
RECURSIVE UnescapeFrom(_, _, _)
UnescapeFrom(s, i, out) ==
    LET p == FirstIn(s, i, {BACKSLASH})
        lit == IF p > i THEN out \o SubSeq(s, i, p - 1) ELSE out
        c == CharAt(s, p + 1)
    IN  IF p > Len(s) THEN [raised |-> FALSE, value |-> lit]
        ELSE IF p = Len(s) THEN [raised |-> TRUE, value |-> lit]
        ELSE IF c \in SimpleEscapes
        THEN UnescapeFrom(s, p + 2, lit \o SimpleEscape(c))
        ELSE IF c = "x"
        THEN IF IsHex(CharAt(s, p + 2)) /\ IsHex(CharAt(s, p + 3))
             THEN UnescapeFrom(s, p + 4,
                     lit \o Chr(16 * HexVal(CharAt(s, p + 2)) + HexVal(CharAt(s, p + 3))))
             ELSE [raised |-> TRUE, value |-> lit]
        ELSE UnescapeFrom(s, p + 2, lit \o BACKSLASH \o c)

unescape(s) == UnescapeFrom(s, 1, "")

(***************************************************************************)
(* The body of parse_build_log's loop, as operators.                       *)
(***************************************************************************)
None == "None"

ParsingResult == [skipped |-> 0, count |-> 0, compdb |-> <<>>]

\* Accumulate without "accumulate_line = accumulate_line[:-2]"
RECURSIVE Accumulate_keepMarker(_, _, _)
Accumulate_keepMarker(line, acc, rest) ==
    IF EndsWith(line, "\\\n")
    THEN LET nxt == IF Len(rest) = 0 THEN "" ELSE Head(rest)
             after == IF Len(rest) = 0 THEN rest ELSE Tail(rest)
         IN  Accumulate_keepMarker(nxt, acc \o nxt, after)
    ELSE [line |-> acc, rest |-> rest]

\* Lines 95-100: line is the physical line read last, acc is accumulate_line,
\* rest the stream after it; next(build_log, '') yields '' at the end.
RECURSIVE Accumulate(_, _, _)
Accumulate(line, acc, rest) ==
    IF EndsWith(line, "\\\n")
    THEN LET nxt == IF Len(rest) = 0 THEN "" ELSE Head(rest)
             after == IF Len(rest) = 0 THEN rest ELSE Tail(rest)
         IN  Accumulate(nxt, SubSeq(acc, 1, Len(acc) - 2) \o nxt, after)
    ELSE [line |-> acc, rest |-> rest]

\* one iteration of "for line in build_log" reads the logical line of stream
\* (a non-empty stream) and leaves the rest
NextLogical(stream) == Accumulate(Head(stream), Head(stream), Tail(stream))

\* Lines 116-122: the compiler a line is attributed to, None when skipped
DetectCompiler(line) ==
    IF cc_compile_regex(line) THEN "cc"
    ELSE IF cpp_compile_regex(line) THEN "c++"
    ELSE None

\* InitialArguments without the test "if extra"
InitialArguments_keepEmpty(comp, extra) == <<comp>> \o extra

\* Lines 126-129
InitialArguments(comp, extra) == <<comp>> \o SelectSeq(extra, LAMBDA e : e # "")

\* EmitWord without the invalid-path test of line 151
EmitWord_unfiltered(words, i, word) ==
    IF i # Len(words) /\ word \in pair_flags /\ CharAt(words[i + 1], 1) # "-"
    THEN IF ~invalid_include_regex(words[i + 1])
         THEN <<word, words[i + 1]>>
         ELSE <<>>
    ELSE <<word>>

\* Lines 143-154: what the whitelisted, unescaped word at index i appends
EmitWord(words, i, word) ==
    IF i # Len(words) /\ word \in pair_flags /\ CharAt(words[i + 1], 1) # "-"
    THEN IF ~invalid_include_regex(words[i + 1])
         THEN <<word, words[i + 1]>>
         ELSE <<>>
    ELSE IF StartsWith(word, "-I")
    THEN LET opt == SubSeq(word, 1, 2)
             val == SubSeq(word, 3, Len(word))
         IN  IF ~invalid_include_regex(val) THEN <<opt \o val>> ELSE <<>>
    ELSE <<word>>

\* ClassifyWords keeping the first file-like word instead of the last
RECURSIVE ClassifyWords_firstFile(_, _, _, _)
ClassifyWords_firstFile(words, i, arguments, filepath) ==
    IF i > Len(words)
    THEN [raised |-> FALSE, arguments |-> arguments, filepath |-> filepath]
    ELSE LET word == words[i]
             fp == IF file_regex(word) /\ filepath = None THEN word ELSE filepath
         IN  IF CharAt(word, 1) # "-" \/ ~flags_whitelist(word)
             THEN ClassifyWords_firstFile(words, i + 1, arguments, fp)
             ELSE LET u == unescape(word)
                  IN  IF u.raised
                      THEN [raised |-> TRUE, arguments |-> arguments, filepath |-> fp]
                      ELSE ClassifyWords_firstFile(words, i + 1,
                               arguments \o EmitWord(words, i, u.value), fp)

\* Lines 133-154: the loop over words from index i on.  raised: unescape
\* raised UnicodeDecodeError.
RECURSIVE ClassifyWords(_, _, _, _)
ClassifyWords(words, i, arguments, filepath) ==
    IF i > Len(words)
    THEN [raised |-> FALSE, arguments |-> arguments, filepath |-> filepath]
    ELSE LET word == words[i]
             fp == IF file_regex(word) THEN word ELSE filepath
         IN  IF CharAt(word, 1) # "-" \/ ~flags_whitelist(word)
             THEN ClassifyWords(words, i + 1, arguments, fp)
             ELSE LET u == unescape(word)
                  IN  IF u.raised
                      THEN [raised |-> TRUE, arguments |-> arguments, filepath |-> fp]
                      ELSE ClassifyWords(words, i + 1,
                                         arguments \o EmitWord(words, i, u.value), fp)

\* Discard without the test "filepath in saved_files"
Discard_nodedup(filepath, saved) == filepath = None

\* Line 156: "not filepath or filepath in saved_files"
Discard(filepath, saved) ==
    filepath = None \/ \E k \in 1..Len(saved) : saved[k] = filepath

\* AppendEntry inserting at the front of the list
AppendEntry_prepend(compdb, directory, filepath, arguments) ==
    <<[directory |-> directory,
       file |-> filepath,
       arguments |-> Append(arguments, filepath)]>> \o compdb

\* Lines 167-172: the entry is appended to result.compdb
AppendEntry(compdb, directory, filepath, arguments) ==
    Append(compdb, [directory |-> directory,
                    file |-> filepath,
                    arguments |-> Append(arguments, filepath)])

\* Line 130: split_cmd_line(line)[1:]
WordsOf(line) == LET w == split_cmd_line(line) IN SubSeq(w, 2, Len(w))

\* Lines 126-154 for a recognized line
Classify(line, comp, extra) ==
    ClassifyWords(WordsOf(line), 1, InitialArguments(comp, extra), None)

(***************************************************************************)
(* generate_json_compdb's environment and arguments.                       *)
(***************************************************************************)
\* the directories that exist
ExistingDirs == {"/p"}

\* os.path.abspath of an absolute path without ".", ".." or "//" components:
\* trailing slashes are dropped
RECURSIVE abspath(_)
abspath(path) ==
    IF Len(path) > 1 /\ EndsWith(path, "/")
    THEN abspath(SubSeq(path, 1, Len(path) - 1))
    ELSE path

isdir(path) == abspath(path) \in ExistingDirs

\* the caller's (proj_dir, extra_flags); extra_flags is "...".split(','), so
\* the default is [''] and an empty item is an empty string
Configs ==
    { [proj_dir |-> "/p", extra_flags |-> <<"">>],
      [proj_dir |-> "/p/", extra_flags |-> <<"-g", "", "-O2">>],
      [proj_dir |-> "/nodir", extra_flags |-> <<"">>] }

\* the physical lines a transcript is made of
Catalogue ==
    { "make: Entering directory '/p/sub'\n",
      "make[1]: Entering directory `/p/gcc d'\n",
      "make: Leaving directory '/p/sub'\n",
      "cc -c -I./inc -DFOO=1 -Wall foo.c\n",
      "g++ -std=c++17 bar.cpp\n",
      "echo building...\n",
      "cc -I out/x_intermediates/include -Iout/y_intermediates -I inc foo.c\n",
      "echo gcc -Iinc main.c\n",
      "gcc -Wall \\\n",
      "cc -DX=\\ -Wall\n",
      "cc -Wall -O2 -Ilib.c\n",
      "clang foo.c -include b.c main.c\n",
      "cc \"-DS=a b\" -DQ=\\\"x\\\" -Iout/\\n_intermediates -Iout/z\\x5fintermediates q.c\n" }

Transcripts == UNION { [1..n -> Catalogue] : n \in 0..MaxLines }

\* the extra_flags lists a scan is given
ExtraFlagLists == { cfg.extra_flags : cfg \in Configs }

\* every logical line a scan of a transcript can read
LogicalLines == { NextLogical(t).line : t \in { u \in Transcripts : Len(u) > 0 } }

(***************************************************************************)
(* What the loop body computes from a logical line alone, tabulated once   *)
(* per line (a table of the operators above, nothing more).                *)
(***************************************************************************)
\* lines 103-119: the matches of the four line patterns
LineMatch ==
    [l \in LogicalLines |->
        [enter |-> make_enter_dir(l),
         dir |-> IF make_enter_dir(l) THEN EnterDirGroup(l) ELSE None,
         leave |-> make_leave_dir(l),
         compiler |-> DetectCompiler(l)]]

\* lines 126-154 for the lines that reach them, per extra_flags
LineClassify ==
    [l \in LogicalLines |->
        [x \in ExtraFlagLists |->
            IF make_enter_dir(l) \/ make_leave_dir(l) \/ DetectCompiler(l) = None
            THEN [raised |-> FALSE, arguments |-> <<>>, filepath |-> None]
            ELSE Classify(l, DetectCompiler(l), x)]]

\* TrackDirectory with line 110 left out: a pop keeps the old working_dir
TrackDirectory_stale(ds, wd, l) ==
    IF LineMatch[l].enter
    THEN [raised |-> FALSE,
          dir_stack |-> Append(ds, LineMatch[l].dir),
          working_dir |-> LineMatch[l].dir]
    ELSE IF LineMatch[l].leave
    THEN [raised |-> Len(ds) = 1,
          dir_stack |-> SubSeq(ds, 1, Len(ds) - 1),
          working_dir |-> wd]
    ELSE [raised |-> FALSE, dir_stack |-> ds, working_dir |-> wd]

\* Lines 102-111: the directory tracker on one logical line.  raised: the
\* pop emptied the stack and dir_stack[-1] raises IndexError.
TrackDirectory(ds, wd, l) ==
    IF LineMatch[l].enter
    THEN [raised |-> FALSE,
          dir_stack |-> Append(ds, LineMatch[l].dir),
          working_dir |-> LineMatch[l].dir]
    ELSE IF LineMatch[l].leave
    THEN LET popped == SubSeq(ds, 1, Len(ds) - 1)
         IN  IF Len(popped) = 0
             THEN [raised |-> TRUE, dir_stack |-> popped, working_dir |-> wd]
             ELSE [raised |-> FALSE, dir_stack |-> popped,
                   working_dir |-> popped[Len(popped)]]
    ELSE [raised |-> FALSE, dir_stack |-> ds, working_dir |-> wd]

\* IsMarker with the marker tests made after the compiler tests: a line that
\* holds a compiler name is not consumed as a marker
IsMarker_afterCompiler(l) ==
    (LineMatch[l].enter \/ LineMatch[l].leave) /\ LineMatch[l].compiler = None

\* Lines 103-111: the line is consumed by the directory tracker ("continue")
IsMarker(l) == LineMatch[l].enter \/ LineMatch[l].leave

(***************************************************************************)
(* The state machine: generate_json_compdb calls parse_build_log, whose    *)
(* loop takes one logical line per step; the caller may scan the same      *)
(* transcript again.                                                       *)
(***************************************************************************)
Init ==
    \E cfg \in Configs : \E t \in Transcripts :
        /\ pc = "start"
        /\ transcript = t
        /\ build_log = t
        /\ proj_dir = cfg.proj_dir
        /\ extra_flags = cfg.extra_flags
        /\ result = ParsingResult
        /\ compiler = None
        /\ dir_stack = <<>>
        /\ saved_files = <<>>
        /\ working_dir = ""
        /\ lineno = 0
        /\ run = 1
        /\ first = ParsingResult
        /\ cmd_line = ""
        /\ split_words = <<>>
        /\ res = <<>>

\* ScanLocals with saved_files shared by every call (a module-level list)
ScanLocals_shared(root) ==
    [result |-> ParsingResult,
     compiler |-> None,
     dir_stack |-> <<root>>,
     saved_files |-> saved_files,
     working_dir |-> root,
     lineno |-> 0]

\* parse_build_log, lines 83-89: the locals of a scan of root
ScanLocals(root) ==
    [result |-> ParsingResult,
     compiler |-> None,
     dir_stack |-> <<root>>,
     saved_files |-> <<>>,
     working_dir |-> root,
     lineno |-> 0]

\* generate_json_compdb raises Error: the project directory does not exist
ProjectDirError ==
    /\ pc = "start"
    /\ ~isdir(proj_dir)
    /\ pc' = "error"
    /\ UNCHANGED <<transcript, build_log, proj_dir, extra_flags, result, compiler,
                   dir_stack, saved_files, working_dir, lineno, run, first>>
    /\ UNCHANGED split_locals

\* generate_json_compdb calls parse_build_log(instream, abspath(proj_dir), ...)
GenerateJsonCompdb ==
    /\ pc = "start"
    /\ isdir(proj_dir)
    /\ LET l == ScanLocals(abspath(proj_dir))
       IN  /\ result' = l.result
           /\ compiler' = l.compiler
           /\ dir_stack' = l.dir_stack
           /\ saved_files' = l.saved_files
           /\ working_dir' = l.working_dir
           /\ lineno' = l.lineno
    /\ pc' = "loop"
    /\ UNCHANGED <<transcript, build_log, proj_dir, extra_flags, run, first>>
    /\ UNCHANGED split_locals

\* the loop has a line to read
HasLine == pc = "loop" /\ Len(build_log) > 0

\* the logical line the next iteration processes
line == NextLogical(build_log).line

\* what every iteration does: lineno += 1 and the stream moves on
Advance ==
    /\ lineno' = lineno + 1
    /\ build_log' = NextLogical(build_log).rest
    /\ UNCHANGED <<transcript, proj_dir, extra_flags, run, first>>
    /\ UNCHANGED split_locals

\* lines 103-107
EnterDir ==
    /\ HasLine
    /\ LineMatch[line].enter
    /\ LET t == TrackDirectory(dir_stack, working_dir, line)
       IN  dir_stack' = t.dir_stack /\ working_dir' = t.working_dir
    /\ Advance
    /\ UNCHANGED <<pc, result, compiler, saved_files>>

\* lines 108-111, the stack still holds a directory after the pop
LeaveDir ==
    /\ HasLine
    /\ ~LineMatch[line].enter
    /\ LineMatch[line].leave
    /\ LET t == TrackDirectory(dir_stack, working_dir, line)
       IN  /\ ~t.raised
           /\ dir_stack' = t.dir_stack
           /\ working_dir' = t.working_dir
    /\ Advance
    /\ UNCHANGED <<pc, result, compiler, saved_files>>

\* lines 108-110, the pop empties the stack: dir_stack[-1] raises IndexError,
\* which nothing catches
LeaveDirIndexError ==
    /\ HasLine
    /\ ~LineMatch[line].enter
    /\ LineMatch[line].leave
    /\ LET t == TrackDirectory(dir_stack, working_dir, line)
       IN  /\ t.raised
           /\ dir_stack' = t.dir_stack
           /\ working_dir' = t.working_dir
    /\ Advance
    /\ pc' = "raised"
    /\ UNCHANGED <<result, compiler, saved_files>>

\* SkipLine without "result.skipped += 1"
SkipLine_nocount ==
    /\ pc = "loop" /\ Len(build_log) > 0
    /\ ~IsMarker(NextLogical(build_log).line)
    /\ LineMatch[NextLogical(build_log).line].compiler = None
    /\ lineno' = lineno + 1
    /\ build_log' = NextLogical(build_log).rest
    /\ UNCHANGED <<pc, transcript, proj_dir, extra_flags, run, first, result,
                   compiler, dir_stack, saved_files, working_dir>>
    /\ UNCHANGED split_locals

\* lines 116-122: not a compiler invocation
SkipLine ==
    /\ HasLine
    /\ ~IsMarker(line)
    /\ LineMatch[line].compiler = None
    /\ result' = [result EXCEPT !.skipped = @ + 1]
    /\ Advance
    /\ UNCHANGED <<pc, compiler, dir_stack, saved_files, working_dir>>

\* lines 116-140: unescape raises UnicodeDecodeError, which nothing catches
UnescapeError ==
    /\ HasLine
    /\ ~IsMarker(line)
    /\ LineMatch[line].compiler # None
    /\ LineClassify[line][extra_flags].raised
    /\ compiler' = LineMatch[line].compiler
    /\ Advance
    /\ pc' = "raised"
    /\ UNCHANGED <<result, dir_stack, saved_files, working_dir>>

\* lines 116-158: no source file, or a file already saved
SkipInvocation ==
    /\ HasLine
    /\ ~IsMarker(line)
    /\ LineMatch[line].compiler # None
    /\ LET c == LineClassify[line][extra_flags]
       IN  /\ ~c.raised
           /\ Discard(c.filepath, saved_files)
    /\ compiler' = LineMatch[line].compiler
    /\ result' = [result EXCEPT !.skipped = @ + 1]
    /\ Advance
    /\ UNCHANGED <<pc, dir_stack, saved_files, working_dir>>

\* lines 116-172: a new entry
AddEntry ==
    /\ HasLine
    /\ ~IsMarker(line)
    /\ LineMatch[line].compiler # None
    /\ LET c == LineClassify[line][extra_flags]
       IN  /\ ~c.raised
           /\ ~Discard(c.filepath, saved_files)
           /\ saved_files' = Append(saved_files, c.filepath)
           /\ result' = [result EXCEPT
                  !.count = @ + 1,
                  !.compdb = AppendEntry(@, working_dir, c.filepath, c.arguments)]
    /\ compiler' = LineMatch[line].compiler
    /\ Advance
    /\ UNCHANGED <<pc, dir_stack, working_dir>>

\* line 174: the stream is exhausted
Return ==
    /\ pc = "loop"
    /\ Len(build_log) = 0
    /\ pc' = "done"
    /\ UNCHANGED <<transcript, build_log, proj_dir, extra_flags, result, compiler,
                   dir_stack, saved_files, working_dir, lineno, run, first>>
    /\ UNCHANGED split_locals

\* the caller keeps the result and scans the same transcript again, with the
\* same proj_dir and extra_flags, in the same process
ScanAgain ==
    /\ pc = "done"
    /\ run < MaxRuns
    /\ run' = run + 1
    /\ first' = IF run = 1 THEN result ELSE first
    /\ build_log' = transcript
    /\ pc' = "start"
    /\ UNCHANGED <<transcript, proj_dir, extra_flags, result, compiler,
                   dir_stack, saved_files, working_dir, lineno>>
    /\ UNCHANGED split_locals

Next ==
    \/ ProjectDirError
    \/ GenerateJsonCompdb
    \/ EnterDir
    \/ LeaveDir
    \/ LeaveDirIndexError
    \/ SkipLine
    \/ UnescapeError
    \/ SkipInvocation
    \/ AddEntry
    \/ Return
    \/ ScanAgain

Spec == Init /\ [][Next]_vars

(***************************************************************************)
(* split_cmd_line called on its own, one iteration of pass 2 per step.     *)
(***************************************************************************)
MaxWords == 4     \* pieces in a command line

\* the text between the blanks of a command line
Pieces == {"cc", "-DS=\"a", "b\"", "-I'x", "y'", "z", "\"w", "\t"}

\* the pieces of ps, a blank between two of them
RECURSIVE JoinWords(_)
JoinWords(ps) ==
    IF Len(ps) = 0 THEN ""
    ELSE IF Len(ps) = 1 THEN ps[1]
    ELSE ps[1] \o " " \o JoinWords(Tail(ps))

\* the command lines split_cmd_line is called with
CmdLines == { JoinWords(ps) : ps \in UNION { [1..n -> Pieces] : n \in 1..MaxWords } }

TokenInit ==
    \E l \in CmdLines :
        /\ pc = "split"
        /\ cmd_line = l
        /\ split_words = <<>>
        /\ res = <<>>
        /\ transcript = <<>>
        /\ build_log = <<>>
        /\ proj_dir = ""
        /\ extra_flags = <<>>
        /\ result = ParsingResult
        /\ compiler = None
        /\ dir_stack = <<>>
        /\ saved_files = <<>>
        /\ working_dir = ""
        /\ lineno = 0
        /\ run = 1
        /\ first = ParsingResult

\* what a call of split_cmd_line leaves alone
ScanUnchanged ==
    UNCHANGED <<transcript, build_log, proj_dir, extra_flags, result, compiler,
                dir_stack, saved_files, working_dir, lineno, run, first, cmd_line>>

\* lines 178-180: pass 1, and res = []
SplitPass1 ==
    /\ pc = "split"
    /\ split_words' = SplitWords(cmd_line, 1)
    /\ res' = <<>>
    /\ pc' = "merge"
    /\ ScanUnchanged

\* lines 181-185: one iteration of "for w in words"
MergeStep ==
    /\ pc = "merge"
    /\ Len(split_words) > 0
    /\ res' = MergeWord(res, Head(split_words))
    /\ split_words' = Tail(split_words)
    /\ pc' = "merge"
    /\ ScanUnchanged

\* line 186: return res
SplitReturn ==
    /\ pc = "merge"
    /\ Len(split_words) = 0
    /\ pc' = "split_done"
    /\ UNCHANGED <<split_words, res>>
    /\ ScanUnchanged

TokenNext ==
    \/ SplitPass1
    \/ MergeStep
    \/ SplitReturn

TokenSpec == TokenInit /\ [][TokenNext]_vars

(***************************************************************************)
(* Properties.                                                             *)
(***************************************************************************)
\* the physical lines the scan in progress has read
Consumed == SubSeq(transcript, 1, Len(transcript) - Len(build_log))

\* the logical lines of a stream, in order
RECURSIVE Logicals(_)
Logicals(stream) ==
    IF Len(stream) = 0 THEN <<>>
    ELSE <<NextLogical(stream).line>> \o Logicals(NextLogical(stream).rest)

Entries == result.compdb

FilesOf(compdb) == { compdb[k].file : k \in 1..Len(compdb) }

\* the step appends an entry to the list of the scan in progress
Appends == pc = "loop" /\ Len(result'.compdb) = Len(result.compdb) + 1

NewEntry == result'.compdb[Len(result'.compdb)]

MaxMarkers == 4   \* marker lines in a nested run

Markers == { l \in LogicalLines : LineMatch[l].enter \/ LineMatch[l].leave }

\* nesting depth after each marker of b, from depth d: FALSE if it goes below 0
RECURSIVE WellNested(_, _, _)
WellNested(b, i, d) ==
    IF i > Len(b) THEN d = 0
    ELSE IF LineMatch[b[i]].enter THEN WellNested(b, i + 1, d + 1)
    ELSE IF LineMatch[b[i]].leave THEN d > 0 /\ WellNested(b, i + 1, d - 1)
    ELSE WellNested(b, i + 1, d)

\* the balanced, properly nested runs of Entering/Leaving lines
BalancedRuns ==
    UNION { IF WellNested(b, 1, 0) THEN {b} ELSE {} :
              b \in UNION { [1..n -> Markers] : n \in 1..MaxMarkers } }

\* the directory tracker run over the lines b[i..]
RECURSIVE RunTracker(_, _, _, _)
RunTracker(ds, wd, b, i) ==
    IF i > Len(b) THEN [raised |-> FALSE, dir_stack |-> ds, working_dir |-> wd]
    ELSE LET t == TrackDirectory(ds, wd, b[i])
         IN  IF t.raised THEN t ELSE RunTracker(t.dir_stack, t.working_dir, b, i + 1)

\* from the current state, every balanced run of markers restores the directory
BalancedRestores ==
    \A b \in BalancedRuns :
        LET t == RunTracker(dir_stack, working_dir, b, 1)
        IN  ~t.raised /\ t.working_dir = working_dir /\ t.dir_stack = dir_stack

\* the markers read so far are balanced: the scan is back in the project root
BackAtRoot ==
    WellNested(Logicals(Consumed), 1, 0) =>
        working_dir = abspath(proj_dir) /\ dir_stack = <<abspath(proj_dir)>>

\* C1: every appended entry's directory is the top of the directory stack at
\* the moment it is assembled (the project root when nothing is entered), and
\* a balanced, properly nested run of Entering/Leaving lines leaves the
\* working directory and the stack as they were before it.
C1_DirectoryCorrect ==
    /\ [][ Appends =>
              /\ NewEntry.directory = dir_stack[Len(dir_stack)]
              /\ Len(dir_stack) = 1 => NewEntry.directory = abspath(proj_dir) ]_vars
    /\ [](pc = "loop" => BalancedRestores)
    /\ [](pc \in {"loop", "done"} => BackAtRoot)

\* scenario B, and the scan is back in /p after it
C1_Witness ==
    /\ pc = "done"
    /\ transcript = << "make: Entering directory '/p/sub'\n",
                       "g++ -std=c++17 bar.cpp\n",
                       "make: Leaving directory '/p/sub'\n" >>
    /\ extra_flags = <<"">>
    /\ Entries = << [directory |-> "/p/sub", file |-> "bar.cpp",
                     arguments |-> <<"c++", "-std=c++17", "bar.cpp">>] >>
    /\ working_dir = "/p"
    /\ dir_stack = <<"/p">>

\* C2: the directory stack is never empty; a Leaving line read while the stack
\* holds only the project root leaves the stack and the working directory as
\* they are, and the scan goes on.
C2_StackNeverEmpty ==
    /\ [](pc \in {"loop", "done", "raised"} => Len(dir_stack) >= 1)
    /\ [][ (/\ HasLine
            /\ ~LineMatch[line].enter
            /\ LineMatch[line].leave
            /\ Len(dir_stack) = 1) =>
               /\ dir_stack' = dir_stack
               /\ working_dir' = working_dir
               /\ pc' = "loop" ]_vars

NoDuplicateFile(compdb) ==
    \A j, k \in 1..Len(compdb) : compdb[j].file = compdb[k].file => j = k

\* the line read next is a recognized invocation whose file an entry records
ReadsDuplicate ==
    /\ HasLine
    /\ ~IsMarker(line)
    /\ LineMatch[line].compiler # None
    /\ ~LineClassify[line][extra_flags].raised
    /\ LineClassify[line][extra_flags].filepath \in FilesOf(Entries)

\* C3: no two entries of a scan have the same file; a recognized invocation
\* whose file an earlier entry records appends nothing, leaves the entries as
\* they are and adds one to the skipped counter.
C3_Dedup ==
    /\ []NoDuplicateFile(Entries)
    /\ [][ ReadsDuplicate =>
              /\ result'.compdb = result.compdb
              /\ result'.skipped = result.skipped + 1 ]_vars

\* scenario C: the same invocation twice
C3_Witness ==
    /\ pc = "done"
    /\ transcript = << "cc -c -I./inc -DFOO=1 -Wall foo.c\n",
                       "cc -c -I./inc -DFOO=1 -Wall foo.c\n" >>
    /\ Len(Entries) = 1
    /\ Entries[1].file = "foo.c"
    /\ result.skipped = 1

\* C4: skipped plus the number of entries never exceeds the result's line
\* counter (ParsingResult.count, printed as "Line count").
C4_CountersBounded ==
    pc \in {"loop", "done", "raised"} =>
        result.skipped + Len(result.compdb) <= result.count

\* extra_flags without its empty strings
NonEmpty(extra) == SelectSeq(extra, LAMBDA e : e # "")

\* the pairing flags that can be emitted
PairingFlags == {"-D", "-I", "-isystem", "-iquote", "-include", "-imacros",
                 "-isysroot", "--sysroot"}

\* the word is a significant flag
IsFlag(w) == CharAt(w, 1) = "-" /\ flags_whitelist(w)

\* the text a flag token is emitted with: its backslash escapes resolved
FlagText(w) == unescape(w).value

\* the flag at index i takes the following word as its value
TakesValue(words, i) ==
    /\ i < Len(words)
    /\ FlagText(words[i]) \in PairingFlags
    /\ CharAt(words[i + 1], 1) # "-"

\* the flag at index i is -I glued to a value
GluedInclude(words, i) ==
    /\ ~TakesValue(words, i)
    /\ StartsWith(FlagText(words[i]), "-I")

GluedValue(words, i) ==
    SubSeq(FlagText(words[i]), 3, Len(FlagText(words[i])))

\* what the word at index i contributes to the arguments
Contribution(words, i) ==
    IF ~IsFlag(words[i]) THEN <<>>
    ELSE IF TakesValue(words, i)
    THEN IF invalid_include_regex(words[i + 1]) THEN <<>>
         ELSE <<FlagText(words[i]), words[i + 1]>>
    ELSE IF GluedInclude(words, i) /\ invalid_include_regex(GluedValue(words, i))
    THEN <<>>
    ELSE <<FlagText(words[i])>>

RECURSIVE Contributions(_, _)
Contributions(words, i) ==
    IF i > Len(words) THEN <<>>
    ELSE Contribution(words, i) \o Contributions(words, i + 1)

\* the accepted flag/value tokens of each logical line, in order
AcceptedTokens == [l \in LogicalLines |-> Contributions(WordsOf(l), 1)]

\* C5 as stated: arguments = [identity] ++ extraFlags (the caller's list,
\* unchanged) ++ the accepted flag/value tokens of the line in order ++ [file],
\* with arguments[0] 'cc' or 'c++'; a flag token is taken as the parser emits
\* a flag, with its backslash escapes resolved.
C5_ArgumentsAsStated ==
    [][ Appends =>
          \A e \in {NewEntry} :
              /\ e.arguments[1] \in {"cc", "c++"}
              /\ e.arguments = <<e.arguments[1]>> \o extra_flags
                                  \o AcceptedTokens[line] \o <<e.file>> ]_vars

\* C5, amended: arguments = [identity] ++ the non-empty strings of extraFlags
\* ++ the accepted flag/value tokens of the line in order ++ [file], with
\* arguments[0] 'cc' or 'c++'.
C5_Arguments ==
    [][ Appends =>
          \A e \in {NewEntry} :
              /\ e.arguments[1] \in {"cc", "c++"}
              /\ e.arguments = <<e.arguments[1]>> \o NonEmpty(extra_flags)
                                  \o AcceptedTokens[line] \o <<e.file>> ]_vars

\* an entry with extra flags, a quoted word that is no flag, an escaped flag
\* and two escaped -I<value>, one of them filtered
C5_Witness ==
    /\ pc = "done"
    /\ transcript =
        << "cc \"-DS=a b\" -DQ=\\\"x\\\" -Iout/\\n_intermediates -Iout/z\\x5fintermediates q.c\n" >>
    /\ extra_flags = <<"-g", "", "-O2">>
    /\ Entries = << [directory |-> "/p", file |-> "q.c",
                     arguments |-> <<"cc", "-g", "-O2", "-DQ=\"x\"",
                                     "-Iout/\n_intermediates", "q.c">>] >>

\* C6: a line that is neither a marker nor a recognized invocation adds one to
\* skipped, appends no entry, leaves the directory stack, the saved files and
\* the entries as they are, and the scan goes on with the lines after it.
C6_SkipUnrecognized ==
    [][ (HasLine /\ ~IsMarker(line) /\ LineMatch[line].compiler = None) =>
          /\ result'.skipped = result.skipped + 1
          /\ result'.compdb = result.compdb
          /\ result'.count = result.count
          /\ dir_stack' = dir_stack
          /\ working_dir' = working_dir
          /\ saved_files' = saved_files
          /\ pc' = "loop"
          /\ build_log' = NextLogical(build_log).rest ]_vars

\* scenario D, and the line after it is processed
C6_Witness ==
    /\ pc = "done"
    /\ transcript = << "echo building...\n", "g++ -std=c++17 bar.cpp\n" >>
    /\ result.skipped = 1
    /\ Len(Entries) = 1
    /\ Entries[1].file = "bar.cpp"

\* C7: a later scan of the same transcript with the same project directory and
\* extra flags returns what the first scan returned.
C7_Deterministic == (pc = "done" /\ run > 1) => result = first

\* a second scan that returned entries and skipped lines
C7_Witness ==
    /\ pc = "done"
    /\ run = 2
    /\ Len(Entries) >= 2
    /\ result.skipped >= 1
    /\ result = first

\* the files of the recognized invocations among lines[i..], in order
RECURSIVE InvokedFiles(_, _, _)
InvokedFiles(lines, i, extra) ==
    IF i > Len(lines) THEN <<>>
    ELSE LET l == lines[i]
             c == LineClassify[l][extra]
         IN  (IF ~IsMarker(l) /\ LineMatch[l].compiler # None /\ c.filepath # None
              THEN <<c.filepath>> ELSE <<>>) \o InvokedFiles(lines, i + 1, extra)

\* files[i..] without the files that occur in seen or earlier in files[i..]
RECURSIVE FirstOccurrences(_, _, _)
FirstOccurrences(files, i, seen) ==
    IF i > Len(files) THEN <<>>
    ELSE IF files[i] \in seen THEN FirstOccurrences(files, i + 1, seen)
    ELSE <<files[i]>> \o FirstOccurrences(files, i + 1, seen \cup {files[i]})

\* C8: a step of the scan leaves the entry list as it is or appends one entry
\* at its end, and the files of the entries are the files of the invocations
\* read so far, each at the place of its first invocation.
C8_AppendOnly ==
    /\ [][ pc = "loop" =>
              \/ result'.compdb = result.compdb
              \/ /\ Len(result'.compdb) = Len(result.compdb) + 1
                 /\ SubSeq(result'.compdb, 1, Len(result.compdb)) = result.compdb ]_vars
    /\ [](pc \in {"loop", "done"} =>
            [k \in 1..Len(Entries) |-> Entries[k].file]
                = FirstOccurrences(InvokedFiles(Logicals(Consumed), 1, extra_flags), 1, {}))

\* two entries in transcript order and a later invocation of the first file
C8_Witness ==
    /\ pc = "done"
    /\ transcript = << "cc -c -I./inc -DFOO=1 -Wall foo.c\n",
                       "g++ -std=c++17 bar.cpp\n",
                       "cc -I out/x_intermediates/include -Iout/y_intermediates -I inc foo.c\n" >>
    /\ Len(Entries) = 2
    /\ Entries[1].file = "foo.c"
    /\ Entries[1].arguments[2] = "-c"
    /\ Entries[2].file = "bar.cpp"
    /\ result.skipped = 1

\* the arguments of an entry between the extra flags and the file
FlagArguments(e, extra) ==
    SubSeq(e.arguments, 2 + Len(NonEmpty(extra)), Len(e.arguments) - 1)

Count(seq, x) == Cardinality({ k \in 1..Len(seq) : seq[k] = x })

\* the flag at index i is dropped with its value, or is a dropped -I<value>
DroppedPair(words, i) ==
    TakesValue(words, i) /\ invalid_include_regex(words[i + 1])

DroppedInclude(words, i) ==
    GluedInclude(words, i) /\ invalid_include_regex(GluedValue(words, i))

\* what the invalid-path filter has to do with each logical line: its words,
\* the text of its flags, its pairs, and the flags the filter drops
FilterFacts ==
    [l \in LogicalLines |->
        LET words == WordsOf(l)
            flags == { i \in 1..Len(words) : IsFlag(words[i]) }
        IN  [ words   |-> words,
              flags   |-> flags,
              text    |-> [i \in flags |-> FlagText(words[i])],
              pairs   |-> { i \in flags : TakesValue(words, i) },
              dropped |-> { i \in flags : DroppedPair(words, i)
                                          \/ DroppedInclude(words, i) } ]]

\* args are the flag arguments emitted for a line with the facts f, as far as
\* the invalid-path filter is concerned
FilterLaw(f, args) ==
    \* no value and no -I<value> that matches the invalid-path pattern
    /\ \A k \in 1..Len(args) :
          /\ CharAt(args[k], 1) # "-" => ~invalid_include_regex(args[k])
          /\ StartsWith(args[k], "-I") =>
                ~invalid_include_regex(SubSeq(args[k], 3, Len(args[k])))
    \* a valid pair is two consecutive arguments, a valid -I<value> is one
    /\ \A i \in f.pairs \ f.dropped :
          \E k \in 1..(Len(args) - 1) :
              args[k] = f.text[i] /\ args[k + 1] = f.words[i + 1]
    /\ \A i \in f.flags \ (f.pairs \cup f.dropped) :
          \E k \in 1..Len(args) : args[k] = f.text[i]
    \* a pairing flag is there as often as it is not dropped
    /\ \A g \in PairingFlags :
          Count(args, g) =
              Cardinality({ i \in f.flags \ f.dropped : f.text[i] = g })
    \* nothing else is dropped or added
    /\ Len(args) = Cardinality(f.flags \ f.dropped)
                   + Cardinality(f.pairs \ f.dropped)

RECURSIVE Basename(_, _)
Basename(w, i) ==
    IF i = 0 THEN w
    ELSE IF CharAt(w, i) = "/" THEN SubSeq(w, i + 1, Len(w))
    ELSE Basename(w, i - 1)

\* the line begins with one of the commands names, possibly qualified by a
\* path or a target prefix (/usr/bin/gcc, arm-linux-gcc)
BeginsWith(l, names) ==
    LET ws == SplitWords(l, 1)
    IN  /\ Len(ws) > 0
        /\ \E n \in names :
              \/ Basename(ws[1], Len(ws[1])) = n
              \/ EndsWith(Basename(ws[1], Len(ws[1])), "-" \o n)

\* the identity the start of each logical line stands for, None if neither
StartIdentity ==
    [l \in LogicalLines |->
        IF BeginsWith(l, {"cc", "gcc", "clang"}) THEN "cc"
        ELSE IF BeginsWith(l, {"g++", "c++", "clang++"}) THEN "c++"
        ELSE None]

\* C10: a line that is no marker is taken as a 'cc' invocation when it begins
\* with a cc/gcc/clang command, else as a 'c++' invocation when it begins with
\* a g++/c++/clang++ command, and is skipped otherwise, whatever compiler-like
\* name occurs later in the line.
C10_ClassifiedByStart ==
    [][ (HasLine /\ ~IsMarker(line)) =>
          IF StartIdentity[line] = None
          THEN /\ result'.skipped = result.skipped + 1
               /\ result'.compdb = result.compdb
               /\ compiler' = compiler
          ELSE /\ compiler' = StartIdentity[line]
               /\ Appends => NewEntry.arguments[1] = StartIdentity[line] ]_vars

\* the token holds an even number of single and of double quotes
QuoteBalanced(t) == CountChar(t, SQUOTE) % 2 = 0 /\ CountChar(t, DQUOTE) % 2 = 0

\* the words ws[i..j], a blank between two of them ("" if there is none)
JoinRange(ws, i, j) == IF i > j THEN "" ELSE JoinWords(SubSeq(ws, i, j))

\* the quote that is open after the text s[i..], st being the one open before
\* it ("" outside quotes), as a shell reads quotes
RECURSIVE QuoteState(_, _, _)
QuoteState(s, i, st) ==
    IF i > Len(s) THEN st
    ELSE LET c == CharAt(s, i)
         IN  QuoteState(s, i + 1,
                        IF st = "" THEN (IF c \in {SQUOTE, DQUOTE} THEN c ELSE "")
                        ELSE IF c = st THEN "" ELSE st)

\* the words ws[i..j] are a value with internal whitespace wrapped in matched
\* quotes: a quote opens in ws[i], outside any quote, is open at the end of
\* every word before ws[j], and ws[j] ends outside any quote
Wrapped(ws, i, j) ==
    /\ i < j
    /\ QuoteState(JoinRange(ws, 1, i - 1), 1, "") = ""
    /\ \A k \in i..(j - 1) : QuoteState(JoinRange(ws, i, k), 1, "") # ""
    /\ QuoteState(JoinRange(ws, i, j), 1, "") = ""

\* the tokens returned hold ws[i..j] as exactly one token
OneToken(tokens, ws, i, j) ==
    \E k \in 1..Len(tokens) : tokens[k] = JoinRange(ws, i, j)

\* one iteration of pass 2 merges the word into the last token exactly when
\* that token is not quote-balanced, and starts a new token otherwise
MergeLaw ==
    MergeStep =>
        LET w == Head(split_words)
            n == Len(res)
        IN  IF n > 0 /\ ~QuoteBalanced(res[n])
            THEN res' = [res EXCEPT ![n] = @ \o " " \o w]
            ELSE res' = Append(res, w)

C12_PreconditionOnly ==
    /\ [][ pc = "start" /\ ~isdir(proj_dir) => pc' = "error" ]_vars
    /\ [](pc = "error" =>
             /\ ~isdir(proj_dir)
             /\ build_log = transcript
             /\ lineno = 0
             /\ result = ParsingResult)
    /\ [](pc # "raised")

\* C13: with an existing project directory the scan reads the physical lines
\* once each and in order, no line stops it or raises, and it returns only
\* when the stream is exhausted.
C13_NoAbort ==
    /\ [](isdir(proj_dir) => pc \in {"start", "loop", "done"})
    /\ [][ HasLine =>
              /\ pc' = "loop"
              /\ Len(build_log') < Len(build_log)
              /\ build_log' =
                   SubSeq(build_log,
                          Len(build_log) - Len(build_log') + 1, Len(build_log)) ]_vars
    /\ [](pc = "done" => Len(build_log) = 0)

\* a physical line that ends in a backslash right before its newline
Continues(l) == EndsWith(l, "\\\n")

\* the last physical line of the logical line that begins at t[i]
RunEnd(t, i) ==
    CHOOSE j \in i..Len(t) :
        /\ j = Len(t) \/ ~Continues(t[j])
        /\ \A k \in i..(j - 1) : Continues(t[k])

\* t[i..j] joined, every backslash-newline marker removed
RECURSIVE Joined(_, _, _)
Joined(t, i, j) ==
    IF i > j THEN ""
    ELSE (IF Continues(t[i]) THEN SubSeq(t[i], 1, Len(t[i]) - 2) ELSE t[i])
         \o Joined(t, i + 1, j)

\* the physical lines of t at which a logical line ends
RunEnds(t) == { j \in 1..Len(t) : j = Len(t) \/ ~Continues(t[j]) }

\* C14: a maximal run of physical lines ending in backslash-newline, with the
\* physical line after it (if any), is processed as one logical line, their
\* concatenation without the markers; the absorbed lines are not processed
\* again; when the stream ends in a pending continuation the text accumulated
\* so far is the final logical line.
C14_Accumulation ==
    /\ [](HasLine =>
            LET i == Len(Consumed) + 1
            IN  /\ i = 1 \/ ~Continues(transcript[i - 1])
                /\ line = Joined(transcript, i, RunEnd(transcript, i)))
    /\ [][ HasLine =>
              LET j == RunEnd(transcript, Len(Consumed) + 1)
              IN  /\ build_log' = SubSeq(transcript, j + 1, Len(transcript))
                  /\ lineno' = lineno + 1 ]_vars
    /\ [](pc = "done" => lineno = Cardinality(RunEnds(transcript)))

\* a continued line and the invocation after it make one logical line, which
\* yields one entry
C14_Witness ==
    /\ pc = "done"
    /\ transcript = << "gcc -Wall \\\n", "cc -c -I./inc -DFOO=1 -Wall foo.c\n" >>
    /\ extra_flags = <<"">>
    /\ lineno = 1
    /\ result.skipped = 0
    /\ Entries = << [directory |-> "/p", file |-> "foo.c",
                     arguments |-> <<"cc", "-Wall", "-c", "-I./inc", "-DFOO=1",
                                     "-Wall", "foo.c">>] >>

\* per logical line: no word after the first matches the source-file pattern
NoFileWord ==
    [l \in LogicalLines |->
        \A k \in 1..Len(WordsOf(l)) : ~file_regex(WordsOf(l)[k])]

\* C15: a recognized compiler line in which no token matches the source-file
\* suffix pattern appends no entry, adds exactly one to the skipped counter,
\* adds nothing to the seen files, and the scan goes on.
C15_IncompleteSkipped ==
    [][ (/\ HasLine
         /\ ~IsMarker(line)
         /\ LineMatch[line].compiler # None
         /\ NoFileWord[line]) =>
            /\ result'.compdb = result.compdb
            /\ result'.count = result.count
            /\ result'.skipped = result.skipped + 1
            /\ saved_files' = saved_files
            /\ pc' = "loop" ]_vars

\* C16: processing an Entering or Leaving line pushes the extracted directory,
\* respectively pops the stack, and leaves the skipped counter, the entries,
\* the entry counter and the seen files as they are, also when the marker text
\* holds a compiler name.
C16_MarkerConsumed ==
    [][ (HasLine /\ (LineMatch[line].enter \/ LineMatch[line].leave)) =>
           /\ result' = result
           /\ saved_files' = saved_files
           /\ compiler' = compiler
           /\ lineno' = lineno + 1
           /\ LineMatch[line].enter =>
                 /\ dir_stack' = Append(dir_stack, LineMatch[line].dir)
                 /\ working_dir' = LineMatch[line].dir
           /\ ~LineMatch[line].enter =>
                 /\ dir_stack' = SubSeq(dir_stack, 1, Len(dir_stack) - 1)
                 /\ Len(dir_stack) > 1 =>
                       working_dir' = dir_stack[Len(dir_stack) - 1] ]_vars

\* an Entering line whose directory name holds "gcc " is consumed as a marker:
\* nothing is skipped, and the invocation after it is in that directory
C16_Witness ==
    /\ pc = "done"
    /\ transcript = << "make[1]: Entering directory `/p/gcc d'\n",
                       "g++ -std=c++17 bar.cpp\n" >>
    /\ extra_flags = <<"">>
    /\ result.skipped = 0
    /\ dir_stack = <<"/p", "/p/gcc d">>
    /\ Entries = << [directory |-> "/p/gcc d", file |-> "bar.cpp",
                     arguments |-> <<"c++", "-std=c++17", "bar.cpp">>] >>

\* per logical line: the last word matching the source-file pattern (None when
\* there is none) and the words matching it before that one
FileWords ==
    [l \in LogicalLines |->
        LET ws == WordsOf(l)
            idx == { k \in 1..Len(ws) : file_regex(ws[k]) }
        IN  [several |-> Cardinality(idx) > 1,
             last |-> IF idx = {} THEN None ELSE ws[SetMax(idx)],
             earlier |-> IF idx = {} THEN {}
                         ELSE { ws[k] : k \in idx } \ { ws[SetMax(idx)] }]]

\* the step reads a recognized invocation with several file-like words, and
\* reaches the discard test of line 156
ReadsSeveralFiles ==
    /\ HasLine
    /\ ~IsMarker(line)
    /\ LineMatch[line].compiler # None
    /\ ~LineClassify[line][extra_flags].raised
    /\ FileWords[line].several

InSeq(seq, x) == \E k \in 1..Len(seq) : seq[k] = x

\* the dedup test and the entry of a step that reads several file-like words
LastFileLaw(f) ==
    /\ InSeq(saved_files, f.last) =>
          /\ result'.compdb = result.compdb
          /\ result'.skipped = result.skipped + 1
          /\ saved_files' = saved_files
    /\ ~InSeq(saved_files, f.last) =>
          /\ Appends
          /\ result'.skipped = result.skipped
          /\ \A e \in {NewEntry} :
                /\ e.file = f.last
                /\ e.arguments[Len(e.arguments)] = f.last
          /\ saved_files' = Append(saved_files, f.last)

\* C17 as stated: with several file-like tokens the entry's file and final
\* argument are the last of them, the dedup test looks at that one only, and
\* the earlier file-like tokens are neither recorded as seen nor emitted.
C17_LastFileWinsAsStated ==
    [][ ReadsSeveralFiles =>
          \A f \in {FileWords[line]} :
             /\ LastFileLaw(f)
             /\ Appends =>
                  \A e \in {NewEntry} : \A w \in f.earlier :
                      ~InSeq(FlagArguments(e, extra_flags), w) ]_vars

\* C17: with several file-like tokens the entry's file and final argument are
\* the last of them, the dedup test looks at that one only, the earlier
\* file-like tokens are not recorded as seen, and one is emitted only as a
\* flag of its own (it begins with '-') or as the value of a pairing flag.
C17_LastFileWins ==
    [][ ReadsSeveralFiles =>
          \A f \in {FileWords[line]} :
             /\ LastFileLaw(f)
             /\ Appends =>
                  \A e \in {NewEntry} :
                     \A k \in (2 + Len(NonEmpty(extra_flags)))..(Len(e.arguments) - 1) :
                        e.arguments[k] \in f.earlier =>
                           \/ CharAt(e.arguments[k], 1) = "-"
                           \/ e.arguments[k - 1] \in PairingFlags ]_vars

\* foo.c is seen, then a line names foo.c, b.c and main.c: the entry is for
\* main.c, foo.c is not emitted, b.c only as the value of -include
C17_Witness ==
    /\ pc = "done"
    /\ transcript = << "cc -c -I./inc -DFOO=1 -Wall foo.c\n",
                       "clang foo.c -include b.c main.c\n" >>
    /\ extra_flags = <<"">>
    /\ result.skipped = 0
    /\ saved_files = <<"foo.c", "main.c">>
    /\ Len(Entries) = 2
    /\ Entries[2] = [directory |-> "/p", file |-> "main.c",
                     arguments |-> <<"cc", "-include", "b.c", "main.c">>]

\* per logical line: the word recorded as the file is also emitted as a flag,
\* or as the value of the pairing flag before it
FileAlsoEmitted ==
    [l \in LogicalLines |->
        LET ws == WordsOf(l)
            idx == { k \in 1..Len(ws) : file_regex(ws[k]) }
        IN  IF idx = {} THEN FALSE
            ELSE LET m == SetMax(idx)
                 IN  \/ IsFlag(ws[m]) /\ ~DroppedInclude(ws, m)
                     \/ /\ m > 1
                        /\ IsFlag(ws[m - 1])
                        /\ TakesValue(ws, m - 1)
                        /\ ~DroppedPair(ws, m - 1)]

\* C18: every token has one classification: the file of an appended entry
\* does not begin with '-' and is not a token that was also emitted as a flag
\* or as a flag's value.
C18_OneClassification ==
    [][ Appends =>
           /\ CharAt(NewEntry.file, 1) # "-"
           /\ ~FileAlsoEmitted[line] ]_vars

\* the non-marker logical lines among those the scan has processed
NonMarkerLines(ls) == Cardinality({ k \in 1..Len(ls) : ~IsMarker(ls[k]) })

\* C19: every logical line that is not a directory marker either adds one to
\* the skipped counter or appends one entry, never both and never neither; so
\* at every point skipped plus the number of entries is the number of
\* non-marker logical lines processed, and the seen files are the file fields
\* of the entries.
C19_ExactAccounting ==
    /\ [][ (HasLine /\ ~IsMarker(line)) =>
              \/ /\ result'.skipped = result.skipped + 1
                 /\ result'.compdb = result.compdb
              \/ /\ result'.skipped = result.skipped
                 /\ Len(result'.compdb) = Len(result.compdb) + 1 ]_vars
    /\ [](pc \in {"loop", "done"} =>
            /\ result.skipped + Len(result.compdb)
                  = NonMarkerLines(Logicals(Consumed))
            /\ result.count = Len(result.compdb)
            /\ { saved_files[k] : k \in 1..Len(saved_files) } = FilesOf(result.compdb))

====
